---- MODULE Spec2Model ----
(***************************************************************************)
(* Model of src/server.js: one HTTP connection carrying one request to     *)
(* POST /info or POST /download, the async handler that serves it, the     *)
(* temp directory, and the three listeners of the streaming phase          *)
(* (stream 'error', stream 'end', response 'close'), each of which is an   *)
(* async function that yields at every await of cleanup().                 *)
(*                                                                         *)
(* File system: fs.access reports whether the path exists at the moment    *)
(* the check completes; fs.unlink removes an existing file and fails with  *)
(* ENOENT on a missing one.                                                *)
(***************************************************************************)
EXTENDS Integers, Sequences, FiniteSets, TLC

\* Number of data chunks the read stream may deliver before it ends.
MaxChunks == 2

Handlers == {"error", "end", "close"}

\* A field that is missing from a JSON body (undefined in the handler).
Undefined == "<undefined>"

NoPath == <<0, "">>
NoInfo == [kind |-> "none", title |-> FALSE, thumbnail |-> FALSE,
           uploader |-> Undefined, artist |-> Undefined]
NoReq  == [route |-> "none", url |-> FALSE, format |-> "", artist |-> Undefined]
NoTags == [artist |-> Undefined, image |-> NoPath]

\* req.body.artist: missing, the empty string, or a name.
Overrides == {Undefined, "", "DJ"}

\* What the child process can print on stdout: text that is not JSON, the
\* JSON literal null, or a JSON object with or without title / thumbnail.
Stdouts ==
  {[kind |-> "garbage", title |-> FALSE, thumbnail |-> FALSE,
    uploader |-> Undefined, artist |-> Undefined],
   [kind |-> "null", title |-> FALSE, thumbnail |-> FALSE,
    uploader |-> Undefined, artist |-> Undefined]}
  \cup [kind : {"object"}, title : BOOLEAN, thumbnail : BOOLEAN,
        uploader : {Undefined, "Uploader"}, artist : {Undefined, "Artist"}]

\* One run of the child process: exit code, captured stdout and stderr.
ToolRuns == [code : {0, 1}, stdout : Stdouts, stderr : {"", "ERROR: unsupported"}]

NoRun == [code |-> -1, stdout |-> NoInfo, stderr |-> ""]

\* Two /download requests served at the same time.
Reqs == {1, 2}

NoAlloc == [file |-> <<>>, thumb |-> <<>>, audio |-> FALSE]

VARIABLES
  pc,            \* position of the route handler
  req,           \* req.body of the request being served
  info,          \* parsed metadata (download handler)
  filePath,      \* const filePath   (line 119)
  thumbnailPath, \* const thumbnailPath (line 120)
  files,         \* paths that exist in tempDir
  spawned,       \* number of yt-dlp processes spawned
  responded,     \* let responded (line 93)
  resp,          \* responses started on the connection, in order
  resFinished,   \* the response was ended (res.json / res.end)
  resClosed,     \* 'close' was emitted on res
  clientGone,    \* the client closed the connection itself
  streamSt,      \* read stream: none / open / ended / errored
  chunks,        \* data chunks piped to res so far
  h,             \* the three listeners: position inside cleanup()
  cleanupCalls,  \* number of calls of cleanup()
  deletes,       \* "Deleted file" log: paths, in order
  unlinkErrs,    \* "Error deleting file" log: count
  sendErr,       \* what res.status(500).json did inside sendError
  embed,         \* outcome of NodeID3.write: none / ok / fail
  tags,          \* const tags (lines 131-135)
  failStage,     \* stage whose failure entered the catch block
  dump,          \* the completed run of `yt-dlp --dump-json`
  unhandled,     \* rejected promises nobody handles
  alloc,         \* two /download requests in flight: their temp paths
  disk,          \* tempDir for the two requests: path and writer of each file
  uuids,         \* number of uuidv4() calls so far
  clobbered      \* a request overwrote or deleted a file of the other one

serveVars == <<pc, req, info, filePath, thumbnailPath, files, spawned, responded,
          resp, resFinished, resClosed, clientGone, streamSt, chunks, h,
          cleanupCalls, deletes, unlinkErrs, sendErr, embed, tags, failStage,
          dump, unhandled>>

pathVars     == <<alloc, disk, uuids, clobbered>>
vars         == <<serveVars, pathVars>>
respVars     == <<responded, resp, resFinished, sendErr, unhandled>>
connVars     == <<resClosed, clientGone>>
pipelineVars == <<pc, req, info, filePath, thumbnailPath, spawned, embed, tags, failStage,
                   dump>>
cleanupVars  == <<h, cleanupCalls, deletes, unlinkErrs>>

Init ==
  /\ pc = "idle"
  /\ req = NoReq
  /\ info = NoInfo
  /\ filePath = NoPath
  /\ thumbnailPath = NoPath
  /\ files = {}
  /\ spawned = 0
  /\ responded = FALSE
  /\ resp = <<>>
  /\ resFinished = FALSE
  /\ resClosed = FALSE
  /\ clientGone = FALSE
  /\ streamSt = "none"
  /\ chunks = 0
  /\ h = [k \in Handlers |-> [st |-> "idle", i |-> 0]]
  /\ cleanupCalls = 0
  /\ deletes = <<>>
  /\ unlinkErrs = 0
  /\ sendErr = "none"
  /\ embed = "none"
  /\ tags = NoTags
  /\ failStage = "none"
  /\ dump = NoRun
  /\ unhandled = 0
  /\ alloc = [r \in Reqs |-> NoAlloc]
  /\ disk = {}
  /\ uuids = 0
  /\ clobbered = FALSE

----------------------------------------------------------------------------
\* Helpers

\* Variant: no generic text when stderr is empty.
execYtDlp_noFallback(run) ==
  IF run.code # 0
  THEN [ok |-> FALSE, out |-> NoInfo, err |-> run.stderr]
  ELSE [ok |-> TRUE, out |-> run.stdout, err |-> ""]

\* execYtDlp: resolves with stdout on exit code 0, otherwise rejects with
\* stderr or the generic text.
execYtDlp(run) ==
  IF run.code # 0
  THEN [ok |-> FALSE, out |-> NoInfo,
        err |-> IF run.stderr = "" THEN "yt-dlp failed" ELSE run.stderr]
  ELSE [ok |-> TRUE, out |-> run.stdout, err |-> ""]

\* JSON.parse throws on text that is not JSON.
JSONparses(stdout) == stdout.kind # "garbage"

\* res.headersSent
headersSent == resp # <<>>

\* A response: status, kind of body, and the message of a {message} body
\* or the artist of a {title, thumbnail, artist} body.
Response(status, kind, msg) == [status |-> status, kind |-> kind, msg |-> msg]

\* JavaScript truthiness of a string-or-undefined value, and a || b.
Truthy(v) == v \notin {Undefined, ""}

Or(a, b) == IF Truthy(a) THEN a ELSE b

\* Variant: the metadata uploader wins over the client's override.
tagsArtist_uploaderFirst(override, meta) ==
  Or(meta.uploader, Or(override, Or(meta.artist, "Unknown Artist")))

\* artist: artist || info.uploader || info.artist || 'Unknown Artist'
\* (line 133)
tagsArtist(override, meta) ==
  Or(override, Or(meta.uploader, Or(meta.artist, "Unknown Artist")))

\* artist: info.uploader || info.artist || 'Unknown Artist'  (line 79)
infoArtist(meta) == Or(meta.uploader, Or(meta.artist, "Unknown Artist"))


----------------------------------------------------------------------------
\* POST /info  (lines 65-85)

\* if (!url)  (line 67)
infoMissing(body) == ~body.url

\* Variant: the check of line 73 is left out.
infoResponse_unchecked(run) ==
  LET x == execYtDlp(run) IN
  IF ~x.ok THEN Response(500, "json-message", "info: " \o x.err)
  ELSE IF ~JSONparses(x.out) THEN Response(500, "json-message", "info: SyntaxError")
  ELSE IF x.out.kind = "null" THEN Response(500, "json-message", "info: TypeError")
  ELSE Response(200, "json-info", infoArtist(x.out))

\* The try/catch of /info: what the handler answers for one tool run.
infoResponse(run) ==
  LET x == execYtDlp(run) IN
  IF ~x.ok THEN Response(500, "json-message", "info: " \o x.err)
  ELSE IF ~JSONparses(x.out) THEN Response(500, "json-message", "info: SyntaxError")
  ELSE IF x.out.kind = "null" THEN Response(500, "json-message", "info: TypeError")
  ELSE IF ~x.out.title \/ ~x.out.thumbnail
       THEN Response(500, "json-message", "info: no metadata")
  ELSE Response(200, "json-info", infoArtist(x.out))

Info_Request(u) ==
  /\ pc = "idle"
  /\ req' = [route |-> "info", url |-> u, format |-> "", artist |-> Undefined]
  /\ IF infoMissing(req')
     THEN /\ resp' = Append(resp, Response(400, "json-message", "no url"))
          /\ resFinished' = TRUE
          /\ pc' = "done"
          /\ UNCHANGED spawned
     ELSE /\ spawned' = spawned + 1
          /\ pc' = "info_resolving"
          /\ UNCHANGED <<resp, resFinished>>
  /\ UNCHANGED <<info, filePath, thumbnailPath, files, responded, connVars,
                 streamSt, chunks, cleanupVars, sendErr, embed, tags, failStage,
                 dump, unhandled>>
  /\ UNCHANGED pathVars

Info_Resolved(run) ==
  /\ pc = "info_resolving"
  /\ resp' = Append(resp, infoResponse(run))
  /\ resFinished' = TRUE
  /\ pc' = "done"
  /\ dump' = run
  /\ UNCHANGED <<req, info, filePath, thumbnailPath, files, spawned, responded,
                 connVars, streamSt, chunks, cleanupVars, sendErr, embed, tags,
                 failStage, unhandled>>
  /\ UNCHANGED pathVars

----------------------------------------------------------------------------
\* POST /download  (lines 87-190)

\* Variant: only url is checked.
downloadMissing_urlOnly(body) == ~body.url

\* if (!url || !format)  (line 89)
downloadMissing(body) == ~body.url \/ body.format = ""

\* The catch block (lines 185-189).  filePath and thumbnailPath are const
\* bindings of the try block (lines 119-120) and are not in scope here:
\* building the argument [filePath, thumbnailPath] throws a ReferenceError
\* before cleanup is called, so neither cleanup nor sendError runs and the
\* promise of the handler rejects.
Catch(stage) ==
  /\ pc' = "rejected"
  /\ failStage' = stage
  /\ unhandled' = unhandled + 1
  /\ UNCHANGED <<responded, resp, resFinished, sendErr, cleanupVars>>

\* Lines 141-159 / 165-183: headers are set (not sent), the read stream is
\* opened, the three listeners are registered and the stream is piped.
StartStreaming ==
  /\ pc' = "streaming"
  /\ streamSt' = "open"

Download_Request(u, f, a) ==
  /\ pc = "idle"
  /\ req' = [route |-> "download", url |-> u, format |-> f, artist |-> a]
  /\ IF downloadMissing(req')
     THEN /\ resp' = Append(resp, Response(400, "json-message", "no url or format"))
          /\ resFinished' = TRUE
          /\ pc' = "done"
          /\ UNCHANGED spawned
     ELSE /\ spawned' = spawned + 1
          /\ pc' = "resolving"
          /\ UNCHANGED <<resp, resFinished>>
  /\ UNCHANGED <<info, filePath, thumbnailPath, files, responded, connVars,
                 streamSt, chunks, cleanupVars, sendErr, embed, tags, failStage,
                 dump, unhandled>>
  /\ UNCHANGED pathVars

\* Lines 115-124 / 162: metadata arrives, paths are allocated, extraction
\* is spawned.  uuidv4() is modelled by two fresh tokens.
Download_Resolved(run) ==
  /\ pc = "resolving"
  /\ dump' = run
  /\ LET x == execYtDlp(run) IN
     IF ~x.ok \/ ~JSONparses(x.out) \/ x.out.kind = "null" \/ ~x.out.title
     THEN /\ Catch("metadata")
          /\ UNCHANGED <<info, filePath, thumbnailPath, spawned>>
     ELSE /\ info' = x.out
          /\ filePath' = <<1, req.format>>
          /\ thumbnailPath' = <<2, "jpg">>
          /\ spawned' = spawned + 1
          /\ pc' = "extracting"
          /\ UNCHANGED <<failStage, respVars, cleanupVars>>
  /\ UNCHANGED <<req, files, connVars, streamSt, chunks, embed, tags>>
  /\ UNCHANGED pathVars

\* await execYtDlp([... '-o', filePath, url])  (lines 124, 162).  The tool
\* may or may not have left a file at filePath, whatever its exit code.
Download_Extracted(run, wrote) ==
  /\ pc = "extracting"
  /\ files' = IF wrote THEN files \cup {filePath} ELSE files
  /\ IF ~execYtDlp(run).ok
     THEN Catch("extract")
     ELSE /\ pc' = "accessing"
          /\ UNCHANGED <<failStage, respVars, cleanupVars>>
  /\ UNCHANGED <<req, info, filePath, thumbnailPath, spawned, connVars,
                 streamSt, chunks, embed, tags, dump>>
  /\ UNCHANGED pathVars

\* Variant: the existence check always passes.
fsAccess_always(file) == TRUE

\* fs.access(file) resolves when the file exists and rejects otherwise.
fsAccess(file) == file \in files

\* Variant: every format takes the audio branch.
isAudio_always(format) == TRUE

\* if (format === 'mp3')  (line 122)
isAudio(format) == format = "mp3"

\* await fs.access(filePath)  (lines 125, 163)
Download_Accessed ==
  /\ pc = "accessing"
  /\ IF ~fsAccess(filePath)
     THEN Catch("access") /\ UNCHANGED streamSt
     ELSE /\ IF isAudio(req.format)
             THEN pc' = "fetching" /\ UNCHANGED streamSt
             ELSE StartStreaming
          /\ UNCHANGED <<failStage, respVars, cleanupVars>>
  /\ UNCHANGED <<req, info, filePath, thumbnailPath, files, spawned, connVars,
                 chunks, embed, tags, dump>>
  /\ UNCHANGED pathVars

\* Variant: a falsy result of NodeID3.write is thrown.
afterEmbed_fatal(success) == IF success THEN "streaming" ELSE "catch"

\* Lines 136-139: a falsy result of NodeID3.write is logged with
\* logger.warn and the handler goes on to the streaming code either way.
afterEmbed(success) == "streaming"

\* await downloadThumbnail(...) and the synchronous rest of the mp3 branch
\* (lines 128-159).  A failed fetch may leave a partial file behind; the
\* fetch cannot succeed without a thumbnail URL.
Download_ThumbnailFetched(ok, wrote, tagged) ==
  /\ pc = "fetching"
  /\ ok => (wrote /\ info.thumbnail)
  /\ wrote => info.thumbnail
  /\ files' = IF wrote THEN files \cup {thumbnailPath} ELSE files
  /\ IF ~ok
     THEN /\ Catch("thumbnail")
          /\ tagged
          /\ UNCHANGED <<embed, tags, streamSt>>
     ELSE /\ tags' = [artist |-> tagsArtist(req.artist, info), image |-> thumbnailPath]
          /\ embed' = IF tagged THEN "ok" ELSE "fail"
          /\ IF afterEmbed(tagged) = "streaming"
             THEN /\ StartStreaming
                  /\ UNCHANGED <<failStage, respVars, cleanupVars>>
             ELSE /\ Catch("embed")
                  /\ UNCHANGED streamSt
  /\ UNCHANGED <<req, info, filePath, thumbnailPath, spawned, connVars, chunks,
                 dump>>
  /\ UNCHANGED pathVars

----------------------------------------------------------------------------
\* The rejected promise of the async route handler.  Express 4 ignores the
\* promise a handler returns: nothing is ever written to the connection.
\* Express 5 forwards the rejection to its default error handler, which
\* answers 500 by itself when no header has been sent.

Express4_Unhandled ==
  /\ pc = "rejected"
  /\ pc' = "abandoned"
  /\ UNCHANGED <<req, info, filePath, thumbnailPath, files, spawned, respVars,
                 connVars, streamSt, chunks, cleanupVars, embed, tags, failStage, dump>>
  /\ UNCHANGED pathVars

Express5_DefaultHandler ==
  /\ pc = "rejected"
  /\ ~headersSent
  /\ pc' = "abandoned"
  /\ resp' = Append(resp, Response(500, "framework", "Internal Server Error"))
  /\ resFinished' = TRUE
  /\ UNCHANGED <<req, info, filePath, thumbnailPath, files, spawned, responded,
                 sendErr, unhandled, connVars, streamSt, chunks, cleanupVars,
                 embed, tags, failStage, dump>>
  /\ UNCHANGED pathVars

----------------------------------------------------------------------------
\* Streaming phase: the listeners of lines 145-158 / 169-182

\* The argument of cleanup in listener k: [filePath, thumbnailPath] in the
\* mp3 branch (lines 147, 152, 157), [filePath] in the video branch
\* (lines 171, 176, 181).
cleanupArgs(k) ==
  IF req.format = "mp3" THEN <<filePath, thumbnailPath>> ELSE <<filePath>>

\* Variant: the loop returns after its first element.
cleanupDone_firstOnly(i, args) == TRUE

\* for (const file of files): the loop is over after the last element.
cleanupDone(i, args) == i >= Len(args)

\* Variant: the body is written with res.end, which does not throw once
\* the headers are out.
sendError_rawEnd(msg) ==
  IF ~responded
  THEN /\ responded' = TRUE
       /\ sendErr' = "sent"
       /\ resp' = Append(resp, Response(500, "json-message", msg))
       /\ resFinished' = TRUE
       /\ UNCHANGED unhandled
  ELSE UNCHANGED respVars

\* sendError (lines 94-99).  res.status(500).json throws
\* ERR_HTTP_HEADERS_SENT when part of the file has already been written.
sendError(msg) ==
  IF ~responded
  THEN /\ responded' = TRUE
       /\ IF headersSent
          THEN /\ sendErr' = "threw"
               /\ unhandled' = unhandled + 1
               /\ UNCHANGED <<resp, resFinished>>
          ELSE /\ sendErr' = "sent"
               /\ resp' = Append(resp, Response(500, "json-message", msg))
               /\ resFinished' = TRUE
               /\ UNCHANGED unhandled
  ELSE UNCHANGED respVars

\* A listener is entered: it logs and calls cleanup, which runs up to its
\* first await (fs.access of the first path).
Enter(k) ==
  /\ h' = [h EXCEPT ![k] = [st |-> "access", i |-> 1]]
  /\ cleanupCalls' = cleanupCalls + 1

\* What listener k does after `await cleanup(...)`.
AfterCleanup(k) ==
  CASE k = "error" -> sendError("stream error")
    [] k = "end"   -> /\ responded' = TRUE
                      /\ UNCHANGED <<resp, resFinished, sendErr, unhandled>>
    [] k = "close" -> UNCHANGED respVars

\* Next iteration of the loop of cleanup, or return to the listener.
Advance(k) ==
  IF cleanupDone(h[k].i, cleanupArgs(k))
  THEN /\ h' = [h EXCEPT ![k].st = "done"]
       /\ AfterCleanup(k)
  ELSE /\ h' = [h EXCEPT ![k] = [st |-> "access", i |-> h[k].i + 1]]
       /\ UNCHANGED respVars

\* await fs.access(file).then(() => true).catch(() => false)  (line 104)
cleanup_access(k) ==
  /\ h[k].st = "access"
  /\ IF cleanupArgs(k)[h[k].i] \in files
     THEN /\ h' = [h EXCEPT ![k].st = "unlink"]
          /\ UNCHANGED respVars
     ELSE Advance(k)
  /\ UNCHANGED <<pipelineVars, files, connVars, streamSt, chunks,
                 cleanupCalls, deletes, unlinkErrs>>
  /\ UNCHANGED pathVars

\* Variant: the error of fs.unlink is not caught.
onUnlinkError_throw == "throw"

\* catch (err) { logger.error(...) }  (lines 108-110): the error of
\* fs.unlink is logged and the loop goes on.
onUnlinkError == "log"

\* await fs.unlink(file)  (lines 105-110)
cleanup_unlink(k) ==
  /\ h[k].st = "unlink"
  /\ LET file == cleanupArgs(k)[h[k].i] IN
     IF file \in files
     THEN /\ files' = files \ {file}
          /\ deletes' = Append(deletes, file)
          /\ UNCHANGED unlinkErrs
          /\ Advance(k)
     ELSE IF onUnlinkError = "log"
     THEN /\ unlinkErrs' = unlinkErrs + 1
          /\ UNCHANGED <<files, deletes>>
          /\ Advance(k)
     ELSE /\ h' = [h EXCEPT ![k].st = "threw"]
          /\ unhandled' = unhandled + 1
          /\ UNCHANGED <<files, deletes, unlinkErrs, responded, resp,
                         resFinished, sendErr>>
  /\ UNCHANGED <<pipelineVars, connVars, streamSt, chunks, cleanupCalls>>
  /\ UNCHANGED pathVars

\* stream.pipe(res): a chunk is written to the response; the first one
\* sends the headers (status 200).
Stream_Data ==
  /\ streamSt = "open"
  /\ ~resClosed
  /\ chunks < MaxChunks
  /\ chunks' = chunks + 1
  /\ resp' = IF headersSent THEN resp ELSE Append(resp, Response(200, "file", ""))
  /\ UNCHANGED <<pipelineVars, files, responded, resFinished, sendErr,
                 unhandled, connVars, streamSt, cleanupVars>>
  /\ UNCHANGED pathVars

\* The stream emits 'end': the listener of line 150 / 174 is entered and
\* pipe ends the response.
Stream_End ==
  /\ streamSt = "open"
  /\ streamSt' = "ended"
  /\ Enter("end")
  /\ IF resClosed
     THEN UNCHANGED <<resp, resFinished>>
     ELSE /\ resp' = IF headersSent THEN resp ELSE Append(resp, Response(200, "file", ""))
          /\ resFinished' = TRUE
  /\ UNCHANGED <<pipelineVars, files, responded, sendErr, unhandled, connVars,
                 chunks, deletes, unlinkErrs>>
  /\ UNCHANGED pathVars

\* Variant: the stream error is thrown into the try block of the handler.
Stream_Error_intoCatch ==
  /\ streamSt = "open"
  /\ streamSt' = "errored"
  /\ Catch("stream")
  /\ UNCHANGED <<req, info, filePath, thumbnailPath, spawned, embed, tags, dump,
                 files, connVars, chunks>>
  /\ UNCHANGED pathVars

\* The stream emits 'error': the listener of line 145 / 169 is entered.
Stream_Error ==
  /\ streamSt = "open"
  /\ streamSt' = "errored"
  /\ Enter("error")
  /\ UNCHANGED <<pipelineVars, files, respVars, connVars, chunks, deletes,
                 unlinkErrs>>
  /\ UNCHANGED pathVars

\* 'close' on res: the listener of line 155 / 179 is entered when it has
\* been registered; before that the event has no listener.
EmitClose ==
  /\ resClosed' = TRUE
  /\ IF pc = "streaming"
     THEN Enter("close")
     ELSE UNCHANGED <<h, cleanupCalls>>

\* The client closes the connection before the response is complete.
Client_Disconnect ==
  /\ pc \notin {"idle"}
  /\ ~resClosed
  /\ ~resFinished
  /\ clientGone' = TRUE
  /\ EmitClose
  /\ UNCHANGED <<pipelineVars, files, respVars, streamSt, chunks, deletes,
                 unlinkErrs>>
  /\ UNCHANGED pathVars

\* The response is complete: node emits 'close' on res.
Res_Close ==
  /\ resFinished
  /\ ~resClosed
  /\ EmitClose
  /\ UNCHANGED <<pipelineVars, files, respVars, clientGone, streamSt, chunks,
                 deletes, unlinkErrs>>
  /\ UNCHANGED pathVars

----------------------------------------------------------------------------
Formats == {"", "mp3", "mp4"}

Next ==
  \/ \E u \in BOOLEAN : Info_Request(u)
  \/ \E run \in ToolRuns : Info_Resolved(run)
  \/ \E u \in BOOLEAN, f \in Formats, a \in Overrides : Download_Request(u, f, a)
  \/ \E run \in ToolRuns : Download_Resolved(run)
  \/ \E run \in ToolRuns, wrote \in BOOLEAN : Download_Extracted(run, wrote)
  \/ Download_Accessed
  \/ \E ok \in BOOLEAN, wrote \in BOOLEAN, tagged \in BOOLEAN :
        Download_ThumbnailFetched(ok, wrote, tagged)
  \/ Express4_Unhandled
  \/ Express5_DefaultHandler
  \/ \E k \in Handlers : cleanup_access(k)
  \/ \E k \in Handlers : cleanup_unlink(k)
  \/ Stream_Data
  \/ Stream_End
  \/ Stream_Error
  \/ Client_Disconnect
  \/ Res_Close

Spec == Init /\ [][Next]_vars

\* The event loop completes every pending fs.access / fs.unlink.
LiveSpec == Spec /\ WF_vars(\E k \in Handlers : cleanup_access(k) \/ cleanup_unlink(k))


----------------------------------------------------------------------------
\* Temp path allocation (lines 117-120) for two requests in flight.  A
\* string is a sequence of tokens; "/" is the path separator.

\* Total number of path allocations.
MaxAllocs == 3

\* The characters [a-zA-Z0-9] that occur in the titles below.
Alnum == {"S", "1"}

\* info.title of the two requests: different titles, one sanitised form.
Titles == {<<"S", "/">>, <<"S", " ">>, <<"S", "1">>}

\* req.body.format: any non-empty string the client sends.
PathFormats == {<<"mp3">>, <<"mp4">>, <<"x", "/", "..", "/", "v">>}

\* uuidv4(): every call returns a new value.
uuidv4(n) == <<"uuid-1", "uuid-2", "uuid-3", "uuid-4", "uuid-5", "uuid-6",
               "uuid-7", "uuid-8", "uuid-9", "uuid-10">>[n]

\* info.title.replace(/[^a-zA-Z0-9]/g, '_')  (line 117)
sanitize(title) ==
  [n \in DOMAIN title |-> IF title[n] \in Alnum THEN title[n] ELSE "_"]

\* `${title}_${uuidv4()}.${format}`  (lines 118, 120)
fileName(title, uuid, ext) == sanitize(title) \o <<"_", uuid, ".">> \o ext

\* The segments of a string between its separators.
RECURSIVE split(_)
split(str) ==
  IF str = <<>> THEN << <<>> >>
  ELSE LET rest == split(Tail(str)) IN
       IF Head(str) = "/" THEN << <<>> >> \o rest
       ELSE << <<Head(str)>> \o rest[1] >> \o Tail(rest)

\* path.normalize: empty and "." segments are dropped, ".." removes the
\* segment before it.
RECURSIVE normalize(_, _)
normalize(segs, acc) ==
  IF segs = <<>> THEN acc
  ELSE IF Head(segs) = <<>> \/ Head(segs) = <<".">>
       THEN normalize(Tail(segs), acc)
  ELSE IF Head(segs) = <<"..">>
       THEN normalize(Tail(segs),
                      IF acc = <<>> THEN acc ELSE SubSeq(acc, 1, Len(acc) - 1))
  ELSE normalize(Tail(segs), Append(acc, Head(segs)))

\* path.join(tempDir, name)  (lines 119, 120)
tempDir == << <<"temp">> >>

pathJoin(dir, name) == normalize(dir \o split(name), <<>>)

\* The files cleanup is given by the listeners of request r.
pathArgs(r) ==
  IF alloc[r].audio THEN {alloc[r].file, alloc[r].thumb} ELSE {alloc[r].file}

\* A write of request r at path: the file now holds what r wrote.
written(r, path) ==
  {f \in disk : f.path # path} \cup {[path |-> path, writer |-> r]}

foreignAt(r, paths) == \E f \in disk : f.path \in paths /\ f.writer # r

\* Lines 117-120: the paths of request r are allocated.
Path_Allocate(r, title, format) ==
  /\ alloc[r] = NoAlloc
  /\ uuids + 2 <= 2 * MaxAllocs
  /\ alloc' = [alloc EXCEPT ![r] =
                 [file  |-> pathJoin(tempDir, fileName(title, uuidv4(uuids + 1), format)),
                  thumb |-> pathJoin(tempDir, fileName(title, uuidv4(uuids + 2), <<"jpg">>)),
                  audio |-> (format = <<"mp3">>)]]
  /\ uuids' = uuids + 2
  /\ UNCHANGED <<disk, clobbered, serveVars>>

\* Lines 124 / 162: yt-dlp writes its output at filePath.
Path_Extract(r) ==
  /\ alloc[r] # NoAlloc
  /\ \A f \in disk : ~(f.path = alloc[r].file /\ f.writer = r)
  /\ disk' = written(r, alloc[r].file)
  /\ clobbered' = (clobbered \/ foreignAt(r, {alloc[r].file}))
  /\ UNCHANGED <<alloc, uuids, serveVars>>

\* Line 128: the thumbnail is written at thumbnailPath (mp3 branch).
Path_Thumbnail(r) ==
  /\ alloc[r] # NoAlloc /\ alloc[r].audio
  /\ \E f \in disk : f.path = alloc[r].file /\ f.writer = r
  /\ \A f \in disk : ~(f.path = alloc[r].thumb /\ f.writer = r)
  /\ disk' = written(r, alloc[r].thumb)
  /\ clobbered' = (clobbered \/ foreignAt(r, {alloc[r].thumb}))
  /\ UNCHANGED <<alloc, uuids, serveVars>>

\* Lines 147-157 / 171-181: the cleanup of request r removes its paths and
\* the request is over.
Path_Cleanup(r) ==
  /\ alloc[r] # NoAlloc
  /\ \E f \in disk : f.path = alloc[r].file
  /\ disk' = {f \in disk : f.path \notin pathArgs(r)}
  /\ clobbered' = (clobbered \/ foreignAt(r, pathArgs(r)))
  /\ alloc' = [alloc EXCEPT ![r] = NoAlloc]
  /\ UNCHANGED <<uuids, serveVars>>

PathNext ==
  \/ \E r \in Reqs, title \in Titles, format \in PathFormats :
        Path_Allocate(r, title, format)
  \/ \E r \in Reqs : Path_Extract(r)
  \/ \E r \in Reqs : Path_Thumbnail(r)
  \/ \E r \in Reqs : Path_Cleanup(r)

PathSpec == Init /\ [][PathNext]_vars

----------------------------------------------------------------------------
\* Properties

\* The /download handler has left through its catch block.
failedBeforeStreaming == pc \in {"rejected", "abandoned"}

\* Every temp path of the request is gone from tempDir.
noTempFiles == filePath \notin files /\ thumbnailPath \notin files

\* C1: a validated /download request that fails before Streaming gets a
\* 500 response with a non-empty message from the outer failure handler
\* (sendError), exactly once.
C1_FailureAnswered500Once ==
  failedBeforeStreaming =>
    /\ sendErr = "sent"
    /\ Len(resp) = 1
    /\ resp[1].status = 500 /\ resp[1].kind = "json-message" /\ resp[1].msg # ""

\* C2: when extraction (the file-existence check included) or the thumbnail
\* fetch fails, Cleanup is run and no temp file of the request is left once
\* the request has terminated.
C2_FailureLeavesNoTempFile ==
  (pc = "abandoned" /\ failStage \in {"extract", "access", "thumbnail"}) =>
    (cleanupCalls >= 1 /\ noTempFiles)

\* C3: in an mp3 download, once the read stream has signalled its normal
\* end, the audio file and the thumbnail file are eventually both removed.
C3_AudioEndRemovesBoth ==
  (req.format = "mp3" /\ streamSt = "ended") ~> noTempFiles

C3_Witness ==
  /\ req.format = "mp3" /\ streamSt = "ended"
  /\ h["end"].st = "done"
  /\ deletes = <<filePath, thumbnailPath>>
  /\ files = {}

\* C4: when the client closes the connection mid-stream (before the normal
\* end of the read stream), no 500 response is attempted for the request,
\* and the cleanup started by 'close' leaves no temp file of the request.
C4_DisconnectNoErrorResponse ==
  (pc = "streaming" /\ clientGone /\ h["close"].st # "idle" /\ streamSt # "ended") =>
    /\ sendErr = "none"
    /\ h["close"].st = "done" => noTempFiles

\* C5: once the paths are allocated, cleanup is called exactly once over
\* the life of the request: never twice, and once when the request is over.
requestOver ==
  \/ pc = "abandoned"
  \/ /\ pc = "streaming" /\ resClosed /\ streamSt # "open"
     /\ \A k \in Handlers : h[k].st \in {"idle", "done"}

C5_CleanupExactlyOnce ==
  filePath # NoPath =>
    /\ cleanupCalls <= 1
    /\ requestOver => cleanupCalls = 1

\* C6: at most one response (400, 500 or the file stream) is ever started
\* on the connection, and at most one error response is sent by the
\* streaming-phase listeners.
C6_AtMostOneResponse ==
  /\ Len(resp) <= 1
  /\ Cardinality({n \in 1..Len(resp) : resp[n].status = 500}) <= 1

C6_Witness ==
  /\ streamSt = "errored" /\ chunks > 0
  /\ h["error"].st = "done" /\ h["close"].st = "done"
  /\ Len(resp) = 1 /\ resp[1].kind = "file"

\* C7: once bytes of the file have been sent, a stream error never attempts
\* a 500 JSON response.
C7_NoErrorResponseAfterBytes ==
  sendErr # "threw"

\* C8: /info without url, and /download without url or without format, is
\* answered 400 before anything is allocated: no temp path, no temp file,
\* no child process.
missingField ==
  \/ req.route = "info" /\ ~req.url
  \/ req.route = "download" /\ (~req.url \/ req.format = "")

C8_ValidationShortCircuits ==
  missingField =>
    /\ pc = "done"
    /\ Len(resp) = 1 /\ resp[1].status = 400
    /\ spawned = 0
    /\ filePath = NoPath /\ thumbnailPath = NoPath
    /\ files = {}
    /\ cleanupCalls = 0

C8_Witness ==
  /\ req.route = "download" /\ req.url /\ req.format = ""
  /\ resp = <<Response(400, "json-message", "no url or format")>>
  /\ resClosed

\* C9: when tag embedding reports failure the request still goes on to
\* Streaming; the failure path is not taken and no error response comes
\* from the embedding failure.
C9_EmbedFailureNotFatal ==
  embed = "fail" =>
    /\ pc = "streaming"
    /\ streamSt # "none"
    /\ failStage = "none"
    /\ sendErr # "none" => streamSt = "errored"

C9_Witness ==
  /\ embed = "fail"
  /\ streamSt = "ended"
  /\ resp = <<Response(200, "file", "")>>
  /\ resFinished

\* C10: every /info request gets exactly one response: 400 without url,
\* 200 with the metadata when the tool exits 0 and prints an object with
\* title and thumbnail, 500 with a message otherwise.
infoExpected ==
  IF ~req.url THEN 400
  ELSE IF dump.code = 0 /\ dump.stdout.kind = "object"
          /\ dump.stdout.title /\ dump.stdout.thumbnail
       THEN 200
  ELSE 500

C10_InfoOneResponse ==
  req.route = "info" =>
    /\ Len(resp) = (IF pc = "done" THEN 1 ELSE 0)
    /\ pc = "done" =>
         /\ resp[1].status = infoExpected
         /\ resp[1].status = 200 => resp[1].kind = "json-info"
         /\ resp[1].status # 200 => (resp[1].kind = "json-message" /\ resp[1].msg # "")

C10_Witness ==
  /\ req.route = "info" /\ pc = "done"
  /\ dump.code = 0 /\ dump.stdout.kind = "object"
  /\ dump.stdout.title /\ ~dump.stdout.thumbnail
  /\ resp[1].status = 500


\* C11: the artist of the TagSet is the client's override if given, else
\* the metadata uploader, else the metadata artist, else "Unknown Artist";
\* the artist of an /info answer is the same chain without the override.
given(v) == v # Undefined /\ v # ""

C11_ArtistPrecedence ==
  /\ tags # NoTags =>
       tags.artist = (IF given(req.artist) THEN req.artist
                      ELSE IF given(info.uploader) THEN info.uploader
                      ELSE IF given(info.artist) THEN info.artist
                      ELSE "Unknown Artist")
  /\ (req.route = "info" /\ pc = "done" /\ resp[1].status = 200) =>
       resp[1].msg = (IF given(dump.stdout.uploader) THEN dump.stdout.uploader
                      ELSE IF given(dump.stdout.artist) THEN dump.stdout.artist
                      ELSE "Unknown Artist")

C11_Witness ==
  /\ tags # NoTags
  /\ req.artist = "" /\ info.uploader = Undefined /\ info.artist = "Artist"
  /\ tags.artist = "Artist"

\* C12: a /download request whose metadata lacks a title or a thumbnail
\* URL fails in metadata resolution: no temp path is allocated and neither
\* extraction nor any later stage is started.
incompleteMetadata ==
  /\ req.route = "download"
  /\ dump.code = 0 /\ dump.stdout.kind = "object"
  /\ ~dump.stdout.title \/ ~dump.stdout.thumbnail

C12_IncompleteMetadataFails ==
  incompleteMetadata =>
    /\ failStage = "metadata"
    /\ filePath = NoPath /\ thumbnailPath = NoPath
    /\ spawned = 1
    /\ streamSt = "none"


\* C13: the stages of a /download request start in the order
\* ResolvingMetadata, ExtractingAsset, (mp3) FetchingThumbnail, (mp3)
\* EmbeddingTags, Streaming, Cleanup; a stage starts only when its
\* predecessor has succeeded (metadata parsed, extracted file seen to
\* exist, thumbnail written), and Streaming never starts after a failure.
extractingStarted == req.route = "download" /\ spawned >= 2
fetchingStarted   == pc = "fetching" \/ embed # "none" \/ failStage = "thumbnail"
embeddingStarted  == embed # "none"
streamingStarted  == streamSt # "none"
cleanupStarted    == cleanupCalls > 0

C13_Order ==
  req.route = "download" =>
    /\ extractingStarted =>
         /\ dump.code = 0 /\ info = dump.stdout
         /\ info.kind = "object" /\ info.title
         /\ failStage # "metadata"
    /\ fetchingStarted =>
         /\ extractingStarted /\ req.format = "mp3"
         /\ failStage \notin {"extract", "access"}
    /\ pc = "fetching" => filePath \in files
    /\ embeddingStarted => (fetchingStarted /\ failStage # "thumbnail")
    /\ streamingStarted =>
         /\ extractingStarted /\ failStage = "none" /\ pc = "streaming"
         /\ req.format = "mp3" => embeddingStarted
    /\ (streamSt = "open" /\ ~cleanupStarted) =>
         /\ filePath \in files
         /\ req.format = "mp3" => thumbnailPath \in files

C13_StageOrder ==
  /\ []C13_Order
  /\ [][(cleanupStarted /\ ~streamingStarted) => ~streamingStarted']_vars
  /\ [][(failStage # "none") => (streamSt' = streamSt)]_vars

C13_Witness ==
  /\ req.format = "mp3" /\ embed = "ok"
  /\ streamSt = "ended" /\ h["end"].st = "done"
  /\ files = {}


\* C14: after a client disconnect in any state of a /download request,
\* before the 'close' listener is registered included, Cleanup removes all
\* temp files of the request (the child process is left to finish).
C14_DisconnectCleansUp ==
  (req.route = "download" /\ clientGone /\ requestOver) => noTempFiles

\* C15: once stream.pipe(res) has been called, the catch block of the
\* /download handler is never entered for that request.
C15_CatchUnreachableAfterPipe ==
  streamingStarted => (pc = "streaming" /\ failStage = "none")

C15_Witness ==
  /\ pc = "streaming" /\ streamSt = "errored"
  /\ h["error"].st = "done" /\ sendErr = "sent"

\* C16: cleanup never fails its caller: an absent path is skipped, a
\* failing delete is logged and not propagated, also when two cleanups on
\* the same paths are interleaved; each file is deleted at most once.
C16_CleanupNeverFails ==
  /\ \A k \in Handlers : h[k].st # "threw"
  /\ unhandled = (IF failedBeforeStreaming THEN 1 ELSE 0)
                 + (IF sendErr = "threw" THEN 1 ELSE 0)
  /\ \A m, n \in 1..Len(deletes) : deletes[m] = deletes[n] => m = n
  /\ \A n \in 1..Len(deletes) : deletes[n] \notin files
  /\ cleanupCalls <= 1 => unlinkErrs = 0
  /\ \A k \in Handlers : h[k].st = "done" =>
        \A n \in 1..Len(cleanupArgs(k)) : cleanupArgs(k)[n] \notin files

C16_Witness ==
  /\ unlinkErrs >= 1
  /\ h["end"].st = "done" /\ h["close"].st = "done"
  /\ Len(deletes) = 2 /\ files = {}

\* C18: execYtDlp resolves with stdout only on exit code zero; on any
\* other exit it rejects with the captured stderr, or with 'yt-dlp failed'
\* when stderr is empty; each invocation settles once.
C18_ExecutorSettles ==
  /\ (req.route = "info" /\ pc = "info_resolving") => (dump = NoRun /\ resp = <<>>)
  /\ (req.route = "info" /\ req.url /\ pc = "done") =>
       /\ dump \in ToolRuns
       /\ IF dump.code # 0
          THEN resp = <<Response(500, "json-message",
                          "info: " \o (IF dump.stderr = "" THEN "yt-dlp failed"
                                       ELSE dump.stderr))>>
          ELSE resp[1].msg \notin {"info: yt-dlp failed", "info: ERROR: unsupported", "info: "}
  /\ (req.route = "download" /\ dump # NoRun) =>
       /\ dump.code # 0 => (failStage = "metadata" /\ info = NoInfo)
       /\ (dump.code = 0 /\ dump.stdout.kind = "object" /\ dump.stdout.title) =>
            (info = dump.stdout /\ failStage # "metadata")

C18_Witness ==
  /\ req.route = "info" /\ pc = "done"
  /\ dump.code = 1 /\ dump.stderr = ""
  /\ resp[1].msg = "info: yt-dlp failed"

\* C19: in the video branch (format other than mp3) the thumbnail is never
\* fetched and tags are never embedded; the primary asset is the only temp
\* file the request creates and the thumbnail path never exists.
C19_VideoNoThumbnail ==
  (req.route = "download" /\ req.format \notin {"", "mp3"}) =>
    /\ pc # "fetching" /\ failStage # "thumbnail"
    /\ embed = "none" /\ tags = NoTags
    /\ thumbnailPath \notin files
    /\ files \subseteq {filePath}
    /\ \A n \in 1..Len(deletes) : deletes[n] = filePath

C19_Witness ==
  /\ req.format = "mp4" /\ streamSt = "ended"
  /\ deletes = <<filePath>> /\ files = {}
  /\ thumbnailPath # NoPath


\* C17: the temp paths of two /download requests in flight are pairwise
\* distinct, so that neither request deletes or overwrites a temp file of
\* the other.
allocated(r) == alloc[r] # NoAlloc

C17_PathsDistinct ==
  /\ \A r1, r2 \in Reqs :
       (r1 # r2 /\ allocated(r1) /\ allocated(r2)) =>
          {alloc[r1].file, alloc[r1].thumb} \cap {alloc[r2].file, alloc[r2].thumb} = {}
  /\ \A r \in Reqs : allocated(r) => alloc[r].file # alloc[r].thumb
  /\ ~clobbered

====
